---- MODULE Spec2Model ----
(***************************************************************************)
(* Model of src/nix/path-info.cc: CmdPathInfo::printSize (the size         *)
(* formatter) and CmdPathInfo::run (the path-info reporter).               *)
(*                                                                         *)
(* A uint64_t is a little-endian sequence of Limbs base-1024 digits, so    *)
(* that the full 64-bit range is kept although TLC integers are 32 bits    *)
(* wide.  A double is kept as the integer it was converted from (rounded   *)
(* to MantBits significant bits) together with the number of exact         *)
(* divisions by 1024 applied so far.                                       *)
(***************************************************************************)
EXTENDS Integers, Sequences, FiniteSets, TLC

VARIABLES
    \* CmdPathInfo fields (command-line flags) and MixJSON::json
    showSize, showClosureSize, humanReadable, showSigs, showSubStatus, json,
    \* the store collaborator's state
    validPaths, brokenClosures, remoteAvailable, substFails,
    \* run(): argument, locals, position
    request, storePaths, pathLen, substitutablePaths, idx, pc, err,
    \* std::cout as written by run(): the text lines, the JSON document, whether it was dumped
    cout, doc, dumped,
    \* collaborator call logs
    subQueries, metaFetches,
    \* printSize(): argument, locals, position, what it wrote
    value, power, res, szpc, szout

flagVars  == <<showSize, showClosureSize, humanReadable, showSigs, showSubStatus, json>>
storeVars == <<validPaths, brokenClosures, remoteAvailable, substFails>>
runVars   == <<request, storePaths, pathLen, substitutablePaths, idx, pc, err>>
outVars   == <<cout, doc, dumped>>
logVars   == <<subQueries, metaFetches>>
sizeVars  == <<value, power, res, szpc, szout>>
vars      == <<flagVars, storeVars, runVars, outVars, logVars, sizeVars>>

----------------------------------------------------------------------------
(* uint64_t and double *)

Base       == 1024
Limbs      == 7
TopLimbMax == 15
MantBits   == 53
IdentsSize == 9

Idents == <<" ", "K", "M", "G", "T", "P", "E", "Z", "Y">>

Pow2(n) == 2 ^ n

U64(d1, d2, d3, d4, d5, d6, d7) == <<d1, d2, d3, d4, d5, d6, d7>>
Small(n) == U64(n % Base, n \div Base, 0, 0, 0, 0, 0)
Zero == Small(0)

BitLen(d) == IF d = 0 THEN 0 ELSE CHOOSE n \in 1..11 : Pow2(n - 1) <= d /\ d < Pow2(n)

TopIndex(v) ==
    IF \A i \in 1..Limbs : v[i] = 0 THEN 0
    ELSE CHOOSE i \in 1..Limbs : v[i] # 0 /\ \A j \in (i + 1)..Limbs : v[j] = 0

NumBits(v) == IF TopIndex(v) = 0 THEN 0 ELSE 10 * (TopIndex(v) - 1) + BitLen(v[TopIndex(v)])

RECURSIVE Carry(_, _, _)
Carry(v, i, c) ==
    IF c = 0 \/ i > Limbs THEN v
    ELSE IF i = Limbs THEN [v EXCEPT ![i] = v[i] + c]
    ELSE Carry([v EXCEPT ![i] = (v[i] + c) % Base], i + 1, (v[i] + c) \div Base)

(* `double res = value`: round to nearest, ties to even, MantBits significant bits.
   At most 11 low bits are dropped, all of them in the two lowest limbs; a carry
   out of the top limb leaves it at TopLimbMax + 1 (the double 2^64). *)
ToDouble(v) ==
    LET shift == NumBits(v) - MantBits IN
    IF shift <= 0 THEN v
    ELSE
        LET w    == v[1] + Base * v[2]
            low  == w % Pow2(shift)
            half == Pow2(shift - 1)
            odd  == (w \div Pow2(shift)) % 2 = 1
            up   == low > half \/ (low = half /\ odd)
            w2   == w - low + (IF up THEN Pow2(shift) ELSE 0)
            v2   == [v EXCEPT ![1] = w2 % Base, ![2] = (w2 \div Base) % Base]
        IN  Carry(v2, 3, w2 \div (Base * Base))

(* A double: mant / 1024^exp, mant an integer in limbs. *)
Double(m, e) == [mant |-> m, exp |-> e]

GreaterOrEqual1024(r) ==
    LET k == r.exp + 2 IN
    /\ k <= Limbs
    /\ \/ \E i \in (k + 1)..Limbs : r.mant[i] > 0
       \/ r.mant[k] >= 1

(* `res > 1024` *)
GreaterThan1024(r) ==
    LET k == r.exp + 2 IN
    /\ k <= Limbs
    /\ \/ \E i \in (k + 1)..Limbs : r.mant[i] > 0
       \/ r.mant[k] > 1
       \/ r.mant[k] = 1 /\ \E j \in 1..(k - 1) : r.mant[j] > 0

DivisionForgotten(r) == r

(* `res /= 1024`: exact in binary floating point *)
DivideBy1024(r) == Double(r.mant, r.exp + 1)

(* fmt("%6.1f", res): the decimal with one fractional digit nearest to res, ties
   to the even digit.  whole is the integer part in limbs, tenth the digit. *)
RECURSIVE TimesTen(_, _, _)
TimesTen(m, i, c) ==
    \* 10 * (fraction limbs 1..Len(m)), lowest limb first; the carry out is appended
    IF i > Len(m) THEN <<c>>
    ELSE <<(10 * m[i] + c) % Base>> \o TimesTen(m, i + 1, (10 * m[i] + c) \div Base)

Format61f(r) ==
    LET whole == [i \in 1..Limbs |-> IF i + r.exp <= Limbs THEN r.mant[i + r.exp] ELSE 0]
        frac  == [i \in 1..r.exp |-> IF i <= Limbs THEN r.mant[i] ELSE 0]
        n     == r.exp
        prod  == TimesTen(frac, 1, 0)
        digit == prod[n + 1]
        top   == IF n = 0 THEN 0 ELSE prod[n]
        rest  == \E j \in 1..(n - 1) : prod[j] > 0
        up    == \/ top > Base \div 2
                 \/ top = Base \div 2 /\ (rest \/ digit % 2 = 1)
        t     == digit + (IF up THEN 1 ELSE 0)
    IN  IF t = 10 THEN [whole |-> Carry(whole, 1, 1), tenth |-> 0]
        ELSE [whole |-> whole, tenth |-> t]

NoOut == [kind |-> "none", whole |-> Zero, tenth |-> 0, unit |-> ""]
Fixed(v) == [kind |-> "fixed", whole |-> v, tenth |-> 0, unit |-> ""]
Human(r, p) ==
    [kind |-> "human", whole |-> Format61f(r).whole, tenth |-> Format61f(r).tenth,
     unit |-> Idents[p + 1]]
OutOfRange == [kind |-> "out_of_range", whole |-> Zero, tenth |-> 0, unit |-> ""]

(* `while (res > 1024 && power < idents.size())` *)
LoopCond(r, p) == GreaterThan1024(r) /\ p < IdentsSize

RECURSIVE ScaleLoop(_, _)
ScaleLoop(r, p) ==
    IF LoopCond(r, p) THEN ScaleLoop(DivideBy1024(r), p + 1)
    ELSE [res |-> r, power |-> p]

(* idents.at(power) throws std::out_of_range past the ladder, before anything is written *)
HumanOut(r, p) == IF p < IdentsSize THEN Human(r, p) ELSE OutOfRange

(* printSize as a function of its argument: what it writes to std::cout *)
printSize(v, human) ==
    IF ~human THEN Fixed(v)
    ELSE LET s == ScaleLoop(Double(ToDouble(v), 0), 0) IN HumanOut(s.res, s.power)

----------------------------------------------------------------------------
(* The store collaborator *)

(* A StorePath is its base name, a string of character codes; StorePathSet
   (std::set<StorePath>) iterates in the lexicographic order of the names. *)
PathA == <<97, 97, 97>>
PathB == <<98>>
Paths == {PathA, PathB}
StoreDir == <<47, 115>>
Slash == <<47>>

printStorePath(p) == StoreDir \o Slash \o p
parseStorePath(s) == SubSeq(s, Len(StoreDir) + Len(Slash) + 1, Len(s))

RECURSIVE PathLess(_, _)
PathLess(a, b) ==
    IF Len(b) = 0 THEN FALSE
    ELSE IF Len(a) = 0 THEN TRUE
    ELSE IF a[1] # b[1] THEN a[1] < b[1]
    ELSE PathLess(Tail(a), Tail(b))

(* StorePathSet(first, last): the set of a sequence's elements *)
StorePathSet(seq) == {seq[i] : i \in 1..Len(seq)}

(* iteration over a std::set *)
RECURSIVE InOrder(_)
InOrder(S) ==
    IF S = {} THEN <<>>
    ELSE LET m == CHOOSE x \in S : \A y \in S \ {x} : PathLess(x, y)
         IN  <<m>> \o InOrder(S \ {m})

NarSize(p) == IF p = PathA THEN Small(1024) ELSE Small(1025)
ClosureSizeOf(p) == IF p = PathA THEN U64(1, 1, 1, 0, 0, 0, 0) ELSE Small(1025)

(* queryPathInfo: the ValidPathInfo of a valid path (an invalid one throws InvalidPath) *)
queryPathInfo(p) ==
    [path     |-> p,
     narSize  |-> NarSize(p),
     ultimate |-> p = PathA,
     ca       |-> IF p = PathB THEN <<"fixed:r:sha256">> ELSE <<>>,
     sigs     |-> IF p = PathA THEN <<"cache-1:sig", "cache-1:sig">> ELSE <<>>]

(* querySubstitutablePaths: the queried paths some substituter has *)
querySubstitutablePaths(S) == S \cap remoteAvailable

(* pathInfoToJSON: one record per member of the set, in the set's order; with
   AllowInvalid an invalid path yields a record that only says so. *)
NoRecordValue == Zero
JSONRecord(p, withClosureSize) ==
    IF p \in validPaths
    THEN [path        |-> printStorePath(queryPathInfo(p).path),
          valid       |-> TRUE,
          keys        |-> {"path", "valid", "narHash", "narSize", "references"}
                            \cup (IF withClosureSize THEN {"closureSize"} ELSE {})
                            \cup (IF queryPathInfo(p).ultimate THEN {"ultimate"} ELSE {})
                            \cup (IF queryPathInfo(p).ca # <<>> THEN {"ca"} ELSE {})
                            \cup (IF queryPathInfo(p).sigs # <<>> THEN {"signatures"} ELSE {}),
          narSize     |-> queryPathInfo(p).narSize,
          closureSize |-> IF withClosureSize THEN ClosureSizeOf(p) ELSE NoRecordValue,
          substitutable |-> FALSE]
    ELSE [path        |-> printStorePath(p),
          valid       |-> FALSE,
          keys        |-> {"path", "valid"},
          narSize     |-> NoRecordValue,
          closureSize |-> NoRecordValue,
          substitutable |-> FALSE]

pathInfoToJSON(S, includeImpureInfo, withClosureSize, allowInvalid) ==
    LET order == InOrder(S)
        fails == \/ ~allowInvalid /\ \E p \in S : p \notin validPaths
                 \/ withClosureSize /\ \E p \in S : p \in validPaths /\ p \in brokenClosures
    IN  [ok      |-> ~fails,
         records |-> [i \in 1..Len(order) |-> JSONRecord(order[i], withClosureSize)]]

----------------------------------------------------------------------------
(* printSize, statement by statement *)

LimbChoices == {0, 1, 512, 1023}
TopChoices  == {0, 1, 15}
SizeInputs ==
    {U64(d1, d2, d3, d4, d5, d6, d7) :
        d1 \in LimbChoices, d2 \in LimbChoices, d3 \in LimbChoices, d4 \in LimbChoices,
        d5 \in LimbChoices, d6 \in LimbChoices, d7 \in TopChoices}

RunIdle ==
    /\ showSize = FALSE /\ showClosureSize = FALSE /\ showSigs = FALSE
    /\ showSubStatus = FALSE /\ json = FALSE
    /\ validPaths = {} /\ brokenClosures = {} /\ remoteAvailable = {} /\ substFails = FALSE
    /\ request = <<>> /\ storePaths = <<>> /\ pathLen = 0 /\ substitutablePaths = {}
    /\ idx = 0 /\ pc = "idle" /\ err = "none"
    /\ cout = <<>> /\ doc = <<>> /\ dumped = FALSE
    /\ subQueries = <<>> /\ metaFetches = 0

SizeInit ==
    /\ RunIdle
    /\ humanReadable \in BOOLEAN
    /\ value \in SizeInputs
    /\ power = 0
    /\ res = Double(Zero, 0)
    /\ szpc = "entry"
    /\ szout = NoOut

sizeFrame == UNCHANGED <<showSize, showClosureSize, humanReadable, showSigs, showSubStatus, json,
                         storeVars, runVars, outVars, logVars, value>>

(* lines 75-78 *)
PrintFixed ==
    /\ szpc = "entry" /\ ~humanReadable
    /\ szout' = Fixed(value)
    /\ szpc' = "done"
    /\ UNCHANGED <<power, res>>
    /\ sizeFrame

(* lines 83-84 *)
EnterLoop ==
    /\ szpc = "entry" /\ humanReadable
    /\ power' = 0
    /\ res' = Double(ToDouble(value), 0)
    /\ szpc' = "loop"
    /\ UNCHANGED szout
    /\ sizeFrame

(* lines 85-88 *)
LoopStep ==
    /\ szpc = "loop" /\ LoopCond(res, power)
    /\ power' = power + 1
    /\ res' = DivideBy1024(res)
    /\ UNCHANGED <<szpc, szout>>
    /\ sizeFrame

(* line 89 *)
PrintHuman ==
    /\ szpc = "loop" /\ ~LoopCond(res, power)
    /\ szout' = HumanOut(res, power)
    /\ szpc' = IF HumanOut(res, power).kind = "out_of_range" THEN "error" ELSE "done"
    /\ UNCHANGED <<power, res>>
    /\ sizeFrame

SizeNext == PrintFixed \/ EnterLoop \/ LoopStep \/ PrintHuman

SizeSpec == SizeInit /\ [][SizeNext]_vars

----------------------------------------------------------------------------
(* CmdPathInfo::run *)

MaxReq == 3

Requests == UNION {[1..n -> Paths] : n \in 0..MaxReq}

SizeIdle ==
    /\ value = Zero /\ power = 0 /\ res = Double(Zero, 0) /\ szpc = "idle" /\ szout = NoOut

Init ==
    /\ SizeIdle
    /\ showSize \in BOOLEAN /\ showClosureSize \in BOOLEAN /\ humanReadable \in BOOLEAN
    /\ showSigs \in BOOLEAN /\ showSubStatus \in BOOLEAN /\ json \in BOOLEAN
    /\ validPaths \in SUBSET Paths
    /\ brokenClosures \in SUBSET validPaths
    /\ remoteAvailable \in SUBSET Paths
    /\ substFails \in BOOLEAN
    /\ request \in Requests
    /\ storePaths = request
    /\ pathLen = 0
    /\ substitutablePaths = {}
    /\ idx = 0
    /\ pc = "pathLen"
    /\ err = "none"
    /\ cout = <<>> /\ doc = <<>> /\ dumped = FALSE
    /\ subQueries = <<>> /\ metaFetches = 0

Max(a, b) == IF a >= b THEN a ELSE b

(* lines 94-96: the longest printed path of the sequence *)
RECURSIVE MaxPrintedLen(_)
MaxPrintedLen(seq) ==
    IF seq = <<>> THEN 0
    ELSE Max(MaxPrintedLen(Tail(seq)), Len(printStorePath(Head(seq))))

ComputePathLen ==
    /\ pc = "pathLen"
    /\ pathLen' = MaxPrintedLen(storePaths)
    /\ pc' = "subst"
    /\ UNCHANGED <<flagVars, storeVars, request, storePaths, substitutablePaths, idx, err,
                   outVars, logVars, sizeVars>>

SubstQueryArgFirst(seq) == IF seq = <<>> THEN {} ELSE {seq[1]}

(* lines 98-100 *)
SubstQueryArg(seq) == StorePathSet(seq)

QuerySubstitutable ==
    /\ pc = "subst" /\ showSubStatus
    /\ subQueries' = Append(subQueries, SubstQueryArg(storePaths))
    /\ IF substFails
       THEN /\ pc' = "error" /\ err' = "SubstituterQuery"
            /\ UNCHANGED substitutablePaths
       ELSE /\ substitutablePaths' = querySubstitutablePaths(SubstQueryArg(storePaths))
            /\ pc' = "branch"
            /\ UNCHANGED err
    /\ UNCHANGED <<flagVars, storeVars, request, storePaths, pathLen, idx,
                   outVars, metaFetches, sizeVars>>

SkipSubstitutable ==
    /\ pc = "subst" /\ ~showSubStatus
    /\ pc' = "branch"
    /\ UNCHANGED <<flagVars, storeVars, request, storePaths, pathLen, substitutablePaths, idx,
                   err, outVars, logVars, sizeVars>>

DisallowInvalid == FALSE
JSONArgClosureSizeAlways == TRUE

(* lines 102-115 *)
AllowInvalid == TRUE
JSONArgPaths(seq) == StorePathSet(seq)
JSONArgClosureSize == showClosureSize

Annotate(v) ==
    [v EXCEPT !.keys = @ \cup {"substitutable"},
              !.substitutable = parseStorePath(v.path) \in substitutablePaths]

JSONDocument ==
    LET j == pathInfoToJSON(JSONArgPaths(storePaths), TRUE, JSONArgClosureSize, AllowInvalid).records
    IN  IF showSubStatus THEN [i \in 1..Len(j) |-> Annotate(j[i])] ELSE j

JSONOk == pathInfoToJSON(JSONArgPaths(storePaths), TRUE, JSONArgClosureSize, AllowInvalid).ok

RunJSON ==
    /\ pc = "branch" /\ json /\ JSONOk
    /\ doc' = JSONDocument
    /\ dumped' = TRUE
    /\ metaFetches' = metaFetches + Cardinality(JSONArgPaths(storePaths))
    /\ pc' = "done"
    /\ UNCHANGED <<flagVars, storeVars, request, storePaths, pathLen, substitutablePaths, idx,
                   err, cout, subQueries, sizeVars>>

RunJSONFail ==
    /\ pc = "branch" /\ json /\ ~JSONOk
    /\ metaFetches' = metaFetches + 1
    /\ pc' = "error" /\ err' = "pathInfoToJSON"
    /\ UNCHANGED <<flagVars, storeVars, request, storePaths, pathLen, substitutablePaths, idx,
                   outVars, subQueries, sizeVars>>

MissingPathsInverted(seq, subst) == SelectSeq(seq, LAMBDA p : p \in subst)

(* lines 118-127 *)
MissingPaths(seq, subst) == SelectSeq(seq, LAMBDA p : p \notin subst)

FilterMissing ==
    /\ pc = "branch" /\ ~json
    /\ storePaths' = IF showSubStatus THEN MissingPaths(storePaths, substitutablePaths)
                     ELSE storePaths
    /\ idx' = 1
    /\ pc' = "loop"
    /\ UNCHANGED <<flagVars, storeVars, request, pathLen, substitutablePaths, err,
                   outVars, logVars, sizeVars>>

(* lines 131-153: one line of text *)
Padded == showSize \/ showClosureSize \/ showSigs
PadWidth(len) == Max(0, pathLen - len)

SigTokens(info) ==
    (IF info.ultimate THEN << <<"ultimate">> >> ELSE <<>>)
    \o (IF info.ca # <<>> THEN << <<"ca:">> \o info.ca >> ELSE <<>>)
    \o [i \in 1..Len(info.sigs) |-> <<info.sigs[i]>>]

LineSize(info) == IF showSize THEN printSize(info.narSize, humanReadable) ELSE NoOut
LineClosure(info) == IF showClosureSize THEN printSize(ClosureSizeOf(info.path), humanReadable) ELSE NoOut

TextLine(info) ==
    [path      |-> printStorePath(info.path),
     pad       |-> IF Padded THEN PadWidth(Len(printStorePath(info.path))) ELSE 0,
     size      |-> LineSize(info),
     closure   |-> LineClosure(info),
     sigsShown |-> showSigs,
     sigs      |-> IF showSigs THEN SigTokens(info) ELSE <<>>,
     nl        |-> TRUE]

(* what is on std::cout when getClosureSize throws at line 142 *)
TextLineCut(info) ==
    [TextLine(info) EXCEPT !.closure = NoOut, !.sigsShown = FALSE, !.sigs = <<>>, !.nl = FALSE]

InLoop == pc = "loop" /\ idx <= Len(storePaths)

(* line 130: queryPathInfo throws InvalidPath *)
TextQueryFail ==
    /\ InLoop
    /\ storePaths[idx] \notin validPaths
    /\ metaFetches' = metaFetches + 1
    /\ pc' = "error" /\ err' = "InvalidPath"
    /\ UNCHANGED <<flagVars, storeVars, request, storePaths, pathLen, substitutablePaths, idx,
                   outVars, subQueries, sizeVars>>

(* line 142: getClosureSize throws after the start of the line was written *)
TextClosureFail ==
    /\ InLoop
    /\ storePaths[idx] \in validPaths
    /\ showClosureSize /\ storePaths[idx] \in brokenClosures
    /\ metaFetches' = metaFetches + 1
    /\ cout' = Append(cout, TextLineCut(queryPathInfo(storePaths[idx])))
    /\ pc' = "error" /\ err' = "getClosureSize"
    /\ UNCHANGED <<flagVars, storeVars, request, storePaths, pathLen, substitutablePaths, idx,
                   doc, dumped, subQueries, sizeVars>>

(* lines 129-154: one iteration that completes *)
TextLineOk ==
    /\ InLoop
    /\ storePaths[idx] \in validPaths
    /\ ~(showClosureSize /\ storePaths[idx] \in brokenClosures)
    /\ metaFetches' = metaFetches + 1
    /\ LET line == TextLine(queryPathInfo(storePaths[idx]))
           thrown == line.size.kind = "out_of_range" \/ line.closure.kind = "out_of_range"
       IN  /\ cout' = Append(cout, IF thrown THEN [line EXCEPT !.nl = FALSE] ELSE line)
           /\ pc' = IF thrown THEN "error" ELSE pc
           /\ err' = IF thrown THEN "out_of_range" ELSE err
           /\ idx' = IF thrown THEN idx ELSE idx + 1
    /\ UNCHANGED <<flagVars, storeVars, request, storePaths, pathLen, substitutablePaths,
                   doc, dumped, subQueries, sizeVars>>

TextDone ==
    /\ pc = "loop" /\ idx > Len(storePaths)
    /\ pc' = "done"
    /\ UNCHANGED <<flagVars, storeVars, request, storePaths, pathLen, substitutablePaths, idx,
                   err, outVars, logVars, sizeVars>>

Next ==
    \/ ComputePathLen
    \/ QuerySubstitutable
    \/ SkipSubstitutable
    \/ RunJSON
    \/ RunJSONFail
    \/ FilterMissing
    \/ TextQueryFail
    \/ TextClosureFail
    \/ TextLineOk
    \/ TextDone

Spec == Init /\ [][Next]_vars

----------------------------------------------------------------------------
(* Properties *)

RECURSIVE Without(_, _)
Without(seq, S) ==
    IF seq = <<>> THEN <<>>
    ELSE IF Head(seq) \in S THEN Without(Tail(seq), S)
    ELSE <<Head(seq)>> \o Without(Tail(seq), S)

Printed(seq) == [i \in 1..Len(seq) |-> printStorePath(seq[i])]
LinePaths == [i \in 1..Len(cout) |-> cout[i].path]
DocPaths == [i \in 1..Len(doc) |-> doc[i].path]
IsPrefix(a, b) == Len(a) <= Len(b) /\ \A i \in 1..Len(a) : a[i] = b[i]

RECURSIVE IsSubsequence(_, _)
IsSubsequence(a, b) ==
    IF a = <<>> THEN TRUE
    ELSE IF b = <<>> THEN FALSE
    ELSE IF Head(a) = Head(b) THEN IsSubsequence(Tail(a), Tail(b))
    ELSE IsSubsequence(a, Tail(b))

TextFiltering == ~json /\ showSubStatus /\ pc \in {"loop", "done", "error"}

(* C1: in text mode with showSubStatus the lines written are, in order, the
   requested paths that the substituter query did not return: never a line
   for a returned path, and on completion one full line per remaining entry. *)
C1_TextRowsAreMissing ==
    TextFiltering =>
        /\ IsPrefix(LinePaths, Printed(Without(request, substitutablePaths)))
        /\ pc = "done" =>
              /\ LinePaths = Printed(Without(request, substitutablePaths))
              /\ \A i \in 1..Len(cout) : cout[i].nl

C1_Witness ==
    /\ ~json /\ showSubStatus /\ pc = "done"
    /\ Len(request) = 3
    /\ Len(cout) = 2
    /\ \E i \in 1..Len(request) : request[i] \in substitutablePaths

(* C2: in structured mode the document has as many records as the request has
   entries, and with showSubStatus each record has a substitutable field. *)
C2_RecordPerRequestEntry ==
    (json /\ pc = "done") =>
        /\ dumped
        /\ Len(doc) = Len(request)
        /\ showSubStatus => \A i \in 1..Len(doc) : "substitutable" \in doc[i].keys

(* C3: rows and records come out in the order of the request (restricted to
   the paths that survive the filter). *)
C3_OutputInRequestOrder ==
    pc = "done" =>
        IF json THEN IsSubsequence(DocPaths, Printed(request))
        ELSE IsSubsequence(LinePaths, Printed(request))

(* C4: in text mode with showSubStatus and a trailing column, every line is
   padded to the longest printed path among those that survive the filter. *)
C4_PadFromSurvivors ==
    (TextFiltering /\ Padded) =>
        \A i \in 1..Len(cout) :
            Len(cout[i].path) + cout[i].pad
                = MaxPrintedLen(Without(request, substitutablePaths))

(* C5: a text-mode run that ends in an error has written nothing. *)
C5_NoOutputBeforeError ==
    (~json /\ pc = "error") => cout = <<>>

TextColumns ==
    \A i \in 1..Len(cout) :
        cout[i].nl =>
            /\ cout[i].size.kind # "none" <=> showSize
            /\ cout[i].closure.kind # "none" <=> showClosureSize

(* C7: a structured record has the path's own size iff showSize and the
   closure size iff showClosureSize, as the text line has the columns. *)
C7_SameFieldSelection ==
    /\ (json /\ pc = "done") =>
          \A k \in 1..Len(doc) :
              doc[k].valid =>
                  /\ "narSize" \in doc[k].keys <=> showSize
                  /\ "closureSize" \in doc[k].keys <=> showClosureSize
    /\ ~json => TextColumns

(* C7 as amended: a structured record of a valid path always has the path's
   own size, whatever showSize is, and has the closure size iff
   showClosureSize; a text line has the size column iff showSize and the
   closure-size column iff showClosureSize. *)
C7_JSONSizeAlways ==
    /\ (json /\ pc = "done") =>
          \A k \in 1..Len(doc) :
              doc[k].valid =>
                  /\ "narSize" \in doc[k].keys
                  /\ "closureSize" \in doc[k].keys <=> showClosureSize
    /\ ~json => TextColumns

C7_Witness ==
    /\ json /\ pc = "done" /\ ~showSize /\ ~showClosureSize
    /\ \E k \in 1..Len(doc) : doc[k].valid /\ "narSize" \in doc[k].keys

(* v > 1024^k, on the limbs *)
Exceeds(v, k) ==
    /\ k < Limbs
    /\ \/ \E i \in (k + 2)..Limbs : v[i] > 0
       \/ v[k + 1] > 1
       \/ v[k + 1] = 1 /\ \E j \in 1..k : v[j] > 0

HumanDone == szpc = "done" /\ humanReadable

(* C8: human mode renders 1024 with one scale step (1.0K) and 0 unscaled
   with the empty unit. *)
C8_BoundaryScalesOnce ==
    HumanDone =>
        /\ value = Small(1024) =>
              /\ power = 1 /\ szout.unit = "K"
              /\ szout.whole = Small(1) /\ szout.tenth = 0
        /\ value = Zero =>
              /\ power = 0 /\ szout.unit = " "
              /\ szout.whole = Zero /\ szout.tenth = 0

(* C8 as amended: human mode divides while the value strictly exceeds 1024,
   so 1024 is rendered unscaled (1024.0 with the empty unit), 1025 is the
   first value rendered with unit K, 0 is rendered 0.0 with the empty unit,
   and the number of divisions is the least k for which the value as a
   double does not exceed 1024^(k+1). *)
C8_StrictBoundary ==
    HumanDone =>
        /\ value = Small(1024) =>
              /\ power = 0 /\ szout.unit = " "
              /\ szout.whole = Small(1024) /\ szout.tenth = 0
        /\ value = Small(1025) =>
              /\ power = 1 /\ szout.unit = "K"
              /\ szout.whole = Small(1) /\ szout.tenth = 0
        /\ value = Zero =>
              /\ power = 0 /\ szout.unit = " "
              /\ szout.whole = Zero /\ szout.tenth = 0
        /\ ~Exceeds(ToDouble(value), power + 1)
        /\ power > 0 => Exceeds(ToDouble(value), power)

C8_Witness ==
    /\ HumanDone /\ value = Small(1024)
    /\ szout.kind = "human" /\ szout.whole = Small(1024)

(* C9: the substituter is queried once, with the set of all requested paths,
   when showSubStatus is set, before any metadata is fetched, and never
   otherwise. *)
C9_OneBatchedQuery ==
    /\ Len(subQueries) <= 1
    /\ ~showSubStatus => subQueries = <<>>
    /\ (showSubStatus /\ pc \notin {"pathLen", "subst"}) =>
          subQueries = << {request[i] : i \in 1..Len(request)} >>
    /\ (showSubStatus /\ metaFetches > 0) => Len(subQueries) = 1

C9_Witness ==
    /\ showSubStatus /\ pc = "done"
    /\ Cardinality({request[i] : i \in 1..Len(request)}) = 2
    /\ metaFetches >= 2
    /\ Len(subQueries) = 1

(* C10: for every 64-bit input the scaling loop ends with a unit index inside
   the ladder, and the unit lookup does not throw. *)
C10_UnitIndexInLadder ==
    /\ szpc # "error"
    /\ power <= IdentsSize - 1
    /\ HumanDone => szout.kind = "human" /\ szout.unit = Idents[power + 1]

C10_Witness ==
    /\ HumanDone
    /\ value = U64(1023, 1023, 1023, 1023, 1023, 1023, 15)
    /\ power = 6 /\ szout.unit = "E"

====
